---- MODULE Spec2Model ----
(***************************************************************************)
(* A model of ossrelease/gen_changelog.py: extraction of issue references  *)
(* from the commit log, resolution of the referenced issues against the    *)
(* tracker (__query_issues), the relationship walk (__walk_issues) and the *)
(* build of the report's entries and link table (build), and the cache of  *)
(* the resolved data (read_cache, write_cache) over several runs.          *)
(*                                                                         *)
(* Text is a sequence of characters.  A character is a one-character       *)
(* string; a few literal words that the code only ever treats as a whole   *)
(* ("saltstack/", "bp-", "pull request ", "**", "PR", "ISSUE", the fixed   *)
(* words of the document, ...) are kept as one symbol.  The character      *)
(* class of such a symbol is that of its first character, and two symbols  *)
(* whose order is compared differ in their first character, so the         *)
(* character classes and the string order of Python are decided by the     *)
(* symbol.                                                                 *)
(***************************************************************************)
EXTENDS Integers, Sequences, FiniteSets, TLC

VARIABLES
    git_log_output,   \* the commit-log snapshot, a sequence of lines: what git log
                      \* prints and, after a cache hit, what the cache entry holds
    tracker,          \* the tracker's content: <<repo, number>> -> item or HTTPError
    pc,               \* position of the run
    release_issues,   \* the seed set extracted from the snapshot
    issue_nums,       \* _gather: the frontier of the current round
    todo,             \* _gather: the frontier items the for loop has not reached yet
    related,          \* _gather: the identifiers collected for the next round
    issue_data,       \* the resolved issue map
    issue_revmap,     \* the reverse map
    query_count,      \* calls of __query_github per identifier
    query_log,        \* the <<identifier, repo, number>> of every call of __query_github
    round,            \* number of _gather calls so far
    w_issues,         \* __walk_issues: its issue map
    w_to_walk,        \* _walk: the ids to walk in the next round
    walked,           \* __walk_issues: the walked set
    level,            \* _walk: recursion level
    w_rounds,         \* number of expansion rounds performed
    w_refs,           \* __walk_issues: the returned list
    result,           \* build: the entry lines, built bottom-up
    links,            \* build: the link-target definitions
    merges,           \* build: self.merges
    issues,           \* build: self.issues
    pulls,            \* build: self.pulls
    contributors,     \* build: the users credited with a PR
    report,           \* build: the lines of the document
    ignore_cache,     \* the option --ignore-cache
    os_errno,         \* the os module of the runtime has the attribute errno
    cache_dir,        \* the cache directory: "absent", "exists" or "blocked"
    cache_file,       \* the cache file of the rev range
    clock,            \* datetime.utcnow() of the run
    cache,            \* __get_issue_data: what read_cache returned
    timestamp,        \* the timestamp of the issue data
    effects,          \* what the run has done to its environment so far
    error,            \* the exception that ended the run, "" when none did
    last_run,         \* the document and the effects of the preceding run
    main,             \* __name__ == '__main__': the module runs as the command
    releases,         \* the old and the new release given to the constructor
    returncode,       \* the exit status of git log
    environ_token,    \* os.environ.get('CHANGELOG_GITHUB_TOKEN'), <<>> when not set
    token_file,       \* the token file of the cache directory
    makedirs_errno,   \* the errno of os.makedirs on a blocked cache directory
    exit_status       \* the status the process exits with: {} while none, or one

vars == <<git_log_output, tracker, pc, release_issues, issue_nums, todo, related,
          issue_data, issue_revmap, query_count, query_log, round,
          w_issues, w_to_walk, walked, level, w_rounds, w_refs,
          result, links, merges, issues, pulls, contributors, report,
          ignore_cache, os_errno, cache_dir, cache_file, clock, cache, timestamp,
          effects, error, last_run,
          main, releases, returncode, environ_token, token_file, makedirs_errno,
          exit_status>>

resolveVars == <<release_issues, issue_nums, todo, related, issue_data,
                 issue_revmap, query_count, query_log, round>>
walkVars == <<w_issues, w_to_walk, walked, level, w_rounds, w_refs>>
buildVars == <<result, links, merges, issues, pulls, contributors, report>>
\* What a run knows of its cache and of itself.
runVars == <<cache, timestamp, effects, error, exit_status>>
\* The environment of a run.
worldVars == <<ignore_cache, os_errno, cache_dir, cache_file, clock, last_run,
              main, releases, returncode, environ_token, token_file, makedirs_errno>>

-----------------------------------------------------------------------------
(* Strings *)

Digits == {"0", "1", "2", "3", "4", "5", "6", "7", "8", "9"}

\* The symbols that consist of characters of [a-zA-Z0-9-] only.
RepoChars == Digits \cup {"r", "bp-", "fix", "salt", "M", "h", "u", "v", "t"}

\* The one character U+2026 (horizontal ellipsis), written "..." here.
Ellipsis == "..."

\* The one character U+0060 (grave accent), written "^" here.
Backquote == "^"

IsDigit(c) == c \in Digits

\* End (exclusive) of the longest run of characters of the class C starting at i.
RunEnd(C, s, i) ==
    CHOOSE j \in i..(Len(s) + 1) :
        /\ \A k \in i..(j - 1) : s[k] \in C
        /\ (j = Len(s) + 1 \/ s[j] \notin C)

\* End (exclusive) of the longest run of characters outside C starting at i.
RunEndNot(C, s, i) ==
    CHOOSE j \in i..(Len(s) + 1) :
        /\ \A k \in i..(j - 1) : s[k] \notin C
        /\ (j = Len(s) + 1 \/ s[j] \in C)

Slice(s, i, j) == SubSeq(s, i, j - 1)        \* Python s[i:j], 1-based, j exclusive

Range(s) == {s[i] : i \in 1..Len(s)}

Contains(s, c) == \E i \in 1..Len(s) : s[i] = c

\* The value of a set of one value.
Only(S) == CHOOSE x \in S : TRUE

\* str.lstrip('#')
RECURSIVE lstrip_hash(_)
lstrip_hash(s) ==
    IF s # <<>> /\ Head(s) = "#" THEN lstrip_hash(Tail(s)) ELSE s

-----------------------------------------------------------------------------
(* issue_re = ((?:saltstack/[a-zA-Z0-9-]+#|#|bp-)(\d+))(U+2026)?                 *)

\* Index after the alternation (?:saltstack/[a-zA-Z0-9-]+#|#|bp-) tried at i,
\* or 0 when no alternative matches there.
IssueRePrefixEnd(s, i) ==
    IF s[i] = "saltstack/"
    THEN LET j == RunEnd(RepoChars, s, i + 1)
         IN  IF j > i + 1 /\ j <= Len(s) /\ s[j] = "#" THEN j + 1 ELSE 0
    ELSE IF s[i] = "#" \/ s[i] = "bp-" THEN i + 1
    ELSE 0

NotTruncated == <<>>

\* The matches of issue_re that start exactly at i (none or one): the index
\* after the match and its three groups.  The digits are the longest run after
\* the alternation, the ellipsis is taken when it follows.
IssueReMatchesAt(s, i) ==
    { [end |-> IF x[2] <= Len(s) /\ s[x[2]] = Ellipsis THEN x[2] + 1 ELSE x[2],
       groups |-> <<Slice(s, i, x[2]), Slice(s, x[1], x[2]),
                    IF x[2] <= Len(s) /\ s[x[2]] = Ellipsis
                    THEN <<Ellipsis>> ELSE NotTruncated>>] :
      x \in { y \in { <<p, RunEnd(Digits, s, p)>> :
                        p \in {IssueRePrefixEnd(s, i)} \ {0} } : y[2] > y[1] } }

\* issue_re.findall(s): the groups of the non-overlapping matches, left to right;
\* from[k] is what the scan finds from index k on.
IssueReFindallFrom(s, i) ==
    LET from[k \in 1..(Len(s) + 1)] ==
            IF k > Len(s) THEN <<>>
            ELSE IF IssueReMatchesAt(s, k) = {} THEN from[k + 1]
            ELSE LET m == CHOOSE x \in IssueReMatchesAt(s, k) : TRUE
                 IN  <<m.groups>> \o from[m.end]
    IN  from[i]

issue_re_findall(s) == IssueReFindallFrom(s, 1)

-----------------------------------------------------------------------------
(* __get_issue_data: the seed set, lines 244-262 *)

\* The key a match of a commit-log line is recorded under.
SeedKeyNumeric(m) == m[2]

SeedKey(m) == IF m[1] # <<>> /\ Head(m[1]) = "saltstack/" THEN m[1] ELSE m[2]

SeedsKeepTruncated(lines) ==
    UNION { { SeedKey(m) : m \in Range(issue_re_findall(line)) } :
            line \in Range(lines) }

\* Lines 245-259: a match followed by the ellipsis is skipped.
SeedsOf(lines) ==
    UNION { { SeedKey(m) : m \in { x \in Range(issue_re_findall(line)) :
                                     x[3] = NotTruncated } } :
            line \in Range(lines) }

-----------------------------------------------------------------------------
(* Values of the variables a specification does not use *)

NoFn == [x \in {} |-> {}]

ResolveIdle ==
    /\ release_issues = {}
    /\ issue_nums = {}
    /\ todo = {}
    /\ related = {}
    /\ issue_data = NoFn
    /\ issue_revmap = NoFn
    /\ query_count = NoFn
    /\ query_log = {}
    /\ round = 0

WalkIdle ==
    /\ w_issues = NoFn
    /\ w_to_walk = {}
    /\ walked = {}
    /\ level = 0
    /\ w_rounds = 0
    /\ w_refs = <<>>

BuildIdle ==
    /\ result = <<>>
    /\ links = {}
    /\ merges = 0
    /\ issues = 0
    /\ pulls = 0
    /\ contributors = {}
    /\ report = <<>>

None == [none |-> TRUE]

\* datetime.utcnow() in the format of line 159, at the first run.
Timestamp == <<"2018-01-02", "T", "00:00:00", "Z">>

\* The cache file of the rev range (lines 449-451) when nothing is at its path.
NoFile == [state |-> "absent", value |-> NoFn]

\* A run that has not done anything yet, and that no run came before.
RunIdle ==
    /\ cache = None
    /\ timestamp = <<>>
    /\ effects = {}
    /\ error = ""
    /\ exit_status = {}
    /\ last_run = [built |-> FALSE, report |-> <<>>, effects |-> {}, hit |-> FALSE]

\* The class is used as a library, with two different releases, a repository
\* in which git log succeeds and a token in the environment.
HostIdle ==
    /\ main = FALSE
    /\ releases = <<"v1", "v2">>
    /\ returncode = 0
    /\ environ_token = <<"t", "1">>
    /\ token_file = [state |-> "absent", value |-> <<>>]
    /\ makedirs_errno = 20

\* A first run with an empty cache, on a runtime whose os module has errno.
WorldIdle ==
    /\ ignore_cache = FALSE
    /\ os_errno = TRUE
    /\ cache_dir = "absent"
    /\ cache_file = NoFile
    /\ clock = Timestamp
    /\ HostIdle

-----------------------------------------------------------------------------
(* The end of a run that fails *)

UNSUPPORTED_PYTHON == 1
INVALID_ARGS == 2
NO_TOKEN == 3
INVALID_TOKEN == 4
NO_REPORT == 5
KEYBOARD_INTERRUPT == 130

\* __exit, lines 191-203: the exception raised, "" when it returns, and the
\* status given to sys.exit.
exit(is_main, status) ==
    IF is_main THEN [error |-> "SystemExit", exit_status |-> {status}]
    ELSE IF status = 0 THEN [error |-> "", exit_status |-> {}]
    ELSE [error |-> "RuntimeError", exit_status |-> {}]

\* The status with which the process ends when nothing catches exc: the
\* argument of sys.exit, and 1 for any other exception that reaches the top of
\* the command (lines 810-837 catch OSError only, which no step here raises).
\* An exception that leaves the library reaches the caller.
ExitStatus(is_main, exc, status) ==
    IF exc = "SystemExit" THEN status
    ELSE IF is_main /\ exc # "" THEN {1}
    ELSE {}

\* The characters of [a-zA-Z0-9] a token is written with here.
TokenChars == Digits \cup {"t", "h", "u", "v", "r", "M"}

\* str.strip()
strip(s) ==
    LET ws == {" ", "\n"}
        i == RunEnd(ws, s, 1)
        j == CHOOSE k \in 0..Len(s) :
                /\ \A n \in (k + 1)..Len(s) : s[n] \in ws
                /\ (k = 0 \/ s[k] \notin ws)
    IN  IF i > Len(s) THEN <<>> ELSE SubSeq(s, i, j)

\* token_re.match, line 442: ^[a-zA-Z0-9]+$, where $ also matches before a
\* newline that ends the string.
token_re_match(t) ==
    LET n == IF t # <<>> /\ t[Len(t)] = "\n" THEN Len(t) - 1 ELSE Len(t)
    IN  n >= 1 /\ \A k \in 1..n : t[k] \in TokenChars

\* Changelog.token, lines 469-484, when no token was read before: the token
\* of the environment and else of the token file, validated (lines 438-447).
token(environ, file, is_main) ==
    IF environ = <<>> /\ file.state # "text"
    THEN exit(is_main, NO_TOKEN)
    ELSE IF ~token_re_match(IF environ # <<>> THEN environ ELSE strip(file.value))
         THEN exit(is_main, INVALID_TOKEN)
         ELSE [error |-> "", exit_status |-> {}]

\* __init__, lines 170-186.  The module imports urllib.error and
\* urllib.request (lines 122-123), so the test of line 170 is made on Python 3
\* only; line 175 compares the releases.
Construct ==
    /\ pc = "new"
    /\ \E e \in { IF releases[1] = releases[2] /\ releases[1] # "None"
                  THEN exit(main, INVALID_ARGS)
                  ELSE [error |-> "", exit_status |-> {}] } :
          /\ error' = e.error
          /\ exit_status' = ExitStatus(main, e.error, e.exit_status)
          /\ pc' = IF e.error = "" THEN "begin" ELSE "raised"
    /\ UNCHANGED <<git_log_output, tracker, cache, timestamp, effects>>
    /\ UNCHANGED resolveVars
    /\ UNCHANGED walkVars
    /\ UNCHANGED buildVars
    /\ UNCHANGED worldVars

-----------------------------------------------------------------------------
(* Extraction of the seed set on its own: every short line *)

MaxLineLen == 4

ExtractAlphabet == {"#", "1", Ellipsis, "bp-", "saltstack/", "r", "own/"}

ExtraLines == { <<"#", "1">>, <<"#", "1", Ellipsis>>, <<"bp-", "1", "1">> }

StringsUpTo(alphabet, n) == UNION { [1..k -> alphabet] : k \in 0..n }

ExtractSnapshots ==
    { <<l>> : l \in StringsUpTo(ExtractAlphabet, MaxLineLen) }
    \cup { <<l, x>> : l \in StringsUpTo(ExtractAlphabet, MaxLineLen), x \in ExtraLines }

\* __get_issue_data, lines 237-262: the timestamp, the git log and the seed
\* set of the snapshot.  __run (lines 296-312) ends the process with the exit
\* status of a git log that failed.
GetSeeds ==
    /\ pc = "start"
    /\ timestamp' = clock
    /\ effects' = effects \cup {"git_log"}
    /\ IF returncode # 0
       THEN /\ error' = "SystemExit"
            /\ exit_status' = ExitStatus(main, "SystemExit", {returncode})
            /\ pc' = "raised"
            /\ UNCHANGED release_issues
       ELSE /\ release_issues' = SeedsOf(git_log_output)
            /\ pc' = "seeded"
            /\ UNCHANGED <<error, exit_status>>
    /\ UNCHANGED <<git_log_output, tracker, issue_nums, todo, related, issue_data,
                   issue_revmap, query_count, query_log, round, cache>>
    /\ UNCHANGED walkVars
    /\ UNCHANGED buildVars
    /\ UNCHANGED worldVars

InitExtract ==
    /\ git_log_output \in ExtractSnapshots
    /\ tracker = NoFn
    /\ pc = "start"
    /\ ResolveIdle
    /\ WalkIdle
    /\ BuildIdle
    /\ RunIdle
    /\ WorldIdle

NextExtract == GetSeeds

SpecExtract == InitExtract /\ [][NextExtract]_vars

-----------------------------------------------------------------------------
(* What the snapshot's text holds, stated on the text itself *)

\* A bare (#NNN) or backport (bp-NNN) reference starts at i and its digits end
\* before d.
BareRefAt(s, i, d) ==
    /\ s[i] \in {"#", "bp-"}
    /\ d > i + 1
    /\ \A k \in (i + 1)..(d - 1) : IsDigit(s[k])
    /\ (d = Len(s) + 1 \/ ~IsDigit(s[d]))

\* A reference qualified by owner o starts at i, its number starts at p and ends
\* before d.
QualifiedRefAt(o, s, i, p, d) ==
    /\ s[i] = o
    /\ p > i + 2
    /\ \A k \in (i + 1)..(p - 2) : s[k] \in RepoChars
    /\ s[p - 1] = "#"
    /\ BareRefAt(s, p - 1, d)

Truncated(s, d) == d <= Len(s) /\ s[d] = Ellipsis

Positions(s) == 1..(Len(s) + 1)

InsideSaltstackRef(s, i) ==
    \E a \in 1..Len(s), p, d \in Positions(s) :
        QualifiedRefAt("saltstack/", s, a, p, d) /\ a < i /\ i < d

\* The keys the three forms stand for: saltstack/repo#NNN in full, #NNN and
\* bp-NNN (outside a saltstack/ reference) by their number.
TextSeeds(lines) ==
    UNION { { Slice(lines[n], i, d) :
                <<i, d>> \in { x \in (1..Len(lines[n])) \X Positions(lines[n]) :
                    /\ \E p \in Positions(lines[n]) :
                           QualifiedRefAt("saltstack/", lines[n], x[1], p, x[2])
                    /\ ~Truncated(lines[n], x[2]) } }
            \cup
            { Slice(lines[n], i + 1, d) :
                <<i, d>> \in { x \in (1..Len(lines[n])) \X Positions(lines[n]) :
                    /\ BareRefAt(lines[n], x[1], x[2])
                    /\ ~InsideSaltstackRef(lines[n], x[1])
                    /\ ~Truncated(lines[n], x[2]) } }
          : n \in 1..Len(lines) }

\* C6: an identifier is in the seed set only if the snapshot holds an occurrence
\* of it (bare, backport or qualified) that no ellipsis character follows; a
\* match followed by the ellipsis adds nothing.
C6_TruncationGuard ==
    pc = "seeded" =>
        \A key \in release_issues :
            \E n \in 1..Len(git_log_output) :
                LET s == git_log_output[n] IN
                \E i \in 1..Len(s), d \in Positions(s) :
                    /\ ~Truncated(s, d)
                    /\ \/ BareRefAt(s, i, d) /\ key = Slice(s, i + 1, d)
                       \/ \E p \in Positions(s) :
                            /\ QualifiedRefAt("saltstack/", s, i, p, d)
                            /\ key = Slice(s, i, d)

\* The seeds were extracted from a snapshot that holds a truncated reference
\* whose number is no seed, next to a reference that is one.
C6_Witness ==
    /\ pc = "seeded"
    /\ release_issues # {}
    /\ \E n \in 1..Len(git_log_output) :
          LET s == git_log_output[n] IN
          \E i \in 1..Len(s), d \in Positions(s) :
              /\ BareRefAt(s, i, d)
              /\ Truncated(s, d)
              /\ Slice(s, i + 1, d) \notin release_issues

\* C7 as claimed: a reference qualified by any owner is a seed under its full
\* qualified form.
C7_AnyOwnerQualified ==
    pc = "seeded" =>
        \A n \in 1..Len(git_log_output) :
            LET s == git_log_output[n] IN
            \A o \in {"saltstack/", "own/"} :
                \A i \in 1..Len(s), p, d \in Positions(s) :
                    QualifiedRefAt(o, s, i, p, d) /\ ~Truncated(s, d)
                        => Slice(s, i, d) \in release_issues

\* C7, amended: the seed set is exactly the full form of every untruncated
\* saltstack/repo#NNN reference and the number of every other untruncated #NNN
\* or bp-NNN reference (that of owner/repo#NNN for another owner included).
C7_SeedKeys ==
    pc = "seeded" => release_issues = TextSeeds(git_log_output)

\* A snapshot with the three forms and a reference of another owner.
C7_Witness ==
    /\ pc = "seeded"
    /\ \E n \in 1..Len(git_log_output) :
          \E i \in 1..Len(git_log_output[n]), p, d \in Positions(git_log_output[n]) :
              /\ QualifiedRefAt("saltstack/", git_log_output[n], i, p, d)
              /\ Slice(git_log_output[n], i, d) \in release_issues
    /\ \E n \in 1..Len(git_log_output) :
          \E i \in 1..Len(git_log_output[n]), d \in Positions(git_log_output[n]) :
              /\ git_log_output[n][i] = "bp-"
              /\ BareRefAt(git_log_output[n], i, d)
              /\ Slice(git_log_output[n], i + 1, d) \in release_issues

-----------------------------------------------------------------------------
(* __split_repo_and_issue, __query_github *)

HomeRepo == <<"saltstack/", "salt">>

HashPositions(s) == { i \in 1..Len(s) : s[i] = "#" }

split_home_only(issue) == <<HomeRepo, issue>>

\* issue.lstrip('#').split('#') unpacks into two parts exactly when one '#' is
\* left; otherwise (ValueError) the home repository and the identifier as given.
split_repo_and_issue(issue) ==
    LET t == lstrip_hash(issue)
        hp == HashPositions(t)
    IN  IF Cardinality(hp) = 1
        THEN LET k == CHOOSE i \in hp : TRUE
             IN  <<Slice(t, 1, k), Slice(t, k + 1, Len(t) + 1)>>
        ELSE <<HomeRepo, issue>>

HTTPError == [error |-> "HTTPError"]

\* The JSON of the issue, or None when urlopen raises HTTPError.
query_github(issue) ==
    LET target == split_repo_and_issue(issue)
    IN  IF target \in DOMAIN tracker /\ tracker[target] # HTTPError
        THEN tracker[target]
        ELSE None

-----------------------------------------------------------------------------
(* __query_issues and its _gather *)

IssueType(issue) == IF issue.pull_request THEN "PR" ELSE "ISSUE"

\* The title and the lines of the body of a fetched item.
PRLines(issue) == <<issue.title>> \o issue.body

LinkedInLineHomeOnly(line) ==
    { lstrip_hash(m[1]) :
        m \in { x \in Range(issue_re_findall(line)) :
                  x[3] = NotTruncated /\ Contains(x[1], "#")
                  /\ Head(x[1]) # "saltstack/" } }

\* Lines 379-385: the references of one line that are followed: not truncated,
\* holding a '#', leading '#' stripped.
LinkedInLine(line) ==
    { lstrip_hash(m[1]) :
        m \in { x \in Range(issue_re_findall(line)) :
                  x[3] = NotTruncated /\ Contains(x[1], "#") } }

LinkedIssues(issue) ==
    UNION { LinkedInLine(line) : line \in Range(PRLines(issue)) }

RevmapAddSwapped(revmap, found, issue_num) ==
    IF found = {} THEN revmap
    ELSE [k \in DOMAIN revmap \cup {issue_num} |->
            (IF k \in DOMAIN revmap THEN revmap[k] ELSE {})
            \cup (IF k = issue_num THEN found ELSE {})]

\* Line 391: issue_revmap.setdefault(issue_id, set()).add(issue_num), for every
\* issue_id found.
RevmapAdd(revmap, found, issue_num) ==
    [k \in DOMAIN revmap \cup found |->
        (IF k \in DOMAIN revmap THEN revmap[k] ELSE {})
        \cup (IF k \in found THEN {issue_num} ELSE {})]

NewRelatedAll(found, data) == found

\* Lines 392-396: only what is not in issue_data yet goes to the next round.
NewRelated(found, data) == { id \in found : id \notin DOMAIN data }

Put(f, k, v) == [x \in DOMAIN f \cup {k} |-> IF x = k THEN v ELSE f[x]]

StoredIssue(issue, found) ==
    [type |-> IssueType(issue), title |-> issue.title, body |-> issue.body,
     user |-> issue.user, closed_at |-> issue.closed_at, related |-> found]

GatherOneStoresPROnly(issue_num, issue, data, revmap, rel) ==
    IF issue = None \/ IssueType(issue) # "PR"
    THEN [issue_data |-> data, issue_revmap |-> revmap, related |-> rel]
    ELSE [issue_data |-> Put(data, issue_num, StoredIssue(issue, LinkedIssues(issue))),
          issue_revmap |-> RevmapAdd(revmap, LinkedIssues(issue), issue_num),
          related |-> rel \cup NewRelated(LinkedIssues(issue), data)]

GatherOneScansIssues(issue_num, issue, data, revmap, rel) ==
    IF issue = None
    THEN [issue_data |-> data, issue_revmap |-> revmap, related |-> rel]
    ELSE [issue_data |-> Put(data, issue_num, StoredIssue(issue, LinkedIssues(issue))),
          issue_revmap |-> RevmapAdd(revmap, LinkedIssues(issue), issue_num),
          related |-> rel \cup NewRelated(LinkedIssues(issue), data)]

\* One pass of the for loop of _gather (lines 367-398) for issue_num, whose
\* query returned issue.
GatherOne(issue_num, issue, data, revmap, rel) ==
    IF issue = None
    THEN [issue_data |-> data, issue_revmap |-> revmap, related |-> rel]
    ELSE LET found == IF IssueType(issue) = "PR" THEN LinkedIssues(issue) ELSE {}
         IN  [issue_data |-> Put(data, issue_num, StoredIssue(issue, found)),
              issue_revmap |-> RevmapAdd(revmap, found, issue_num),
              related |-> rel \cup NewRelated(found, data)]

\* Line 266 and lines 360-364, 404: __query_issues starts the first _gather.
QueryIssues ==
    /\ pc = "seeded"
    /\ pc' = "gather"
    /\ issue_nums' = release_issues
    /\ todo' = release_issues
    /\ related' = {}
    /\ issue_data' = NoFn
    /\ issue_revmap' = NoFn
    /\ round' = 1
    /\ UNCHANGED <<git_log_output, tracker, release_issues, query_count, query_log,
                   cache, timestamp, effects, error, exit_status>>
    /\ UNCHANGED walkVars
    /\ UNCHANGED buildVars
    /\ UNCHANGED worldVars

\* One pass of the for loop: the set is iterated in any order; __query_github
\* reads the token (line 346), which ends the run when there is none or it is
\* not valid, and queries the tracker.
GatherStep ==
    /\ pc = "gather"
    /\ todo # {}
    /\ \E tk \in {token(environ_token, token_file, main)} :
         IF tk.error # ""
         THEN /\ error' = tk.error
              /\ exit_status' = ExitStatus(main, tk.error, tk.exit_status)
              /\ pc' = "raised"
              /\ effects' = effects \cup {"token"}
              /\ UNCHANGED <<query_count, query_log, todo, issue_data, issue_revmap,
                             related>>
         ELSE /\ \E issue_num \in todo :
                   \E target \in {split_repo_and_issue(issue_num)},
                      g \in {GatherOne(issue_num, query_github(issue_num),
                                       issue_data, issue_revmap, related)} :
                       /\ query_count' = Put(query_count, issue_num,
                              IF issue_num \in DOMAIN query_count
                              THEN query_count[issue_num] + 1 ELSE 1)
                       /\ query_log' = query_log \cup {<<issue_num, target[1], target[2]>>}
                       /\ todo' = todo \ {issue_num}
                       /\ issue_data' = g.issue_data
                       /\ issue_revmap' = g.issue_revmap
                       /\ related' = g.related
              /\ effects' = effects \cup {"token", "query"}
              /\ UNCHANGED <<pc, error, exit_status>>
    /\ UNCHANGED <<git_log_output, tracker, release_issues, issue_nums, round,
                   cache, timestamp>>
    /\ UNCHANGED walkVars
    /\ UNCHANGED buildVars
    /\ UNCHANGED worldVars

\* Lines 400-402: the loop is over and related is not empty.
GatherRecurse ==
    /\ pc = "gather"
    /\ todo = {}
    /\ related # {}
    /\ issue_nums' = related
    /\ todo' = related
    /\ related' = {}
    /\ round' = round + 1
    /\ UNCHANGED <<git_log_output, tracker, pc, release_issues, issue_data,
                   issue_revmap, query_count, query_log, cache, timestamp, effects,
                   error, exit_status>>
    /\ UNCHANGED walkVars
    /\ UNCHANGED buildVars
    /\ UNCHANGED worldVars

\* Lines 400, 406: the loop is over and related is empty; every _gather returns.
GatherReturn ==
    /\ pc = "gather"
    /\ todo = {}
    /\ related = {}
    /\ pc' = "resolved"
    /\ UNCHANGED <<git_log_output, tracker, cache, timestamp, effects, error, exit_status>>
    /\ UNCHANGED resolveVars
    /\ UNCHANGED walkVars
    /\ UNCHANGED buildVars
    /\ UNCHANGED worldVars

-----------------------------------------------------------------------------
(* __walk_issues *)

\* Code point of the first character of a symbol of an identifier.
Ord(c) ==
    CASE c = "#" -> 35
      [] c = "0" -> 48 [] c = "1" -> 49 [] c = "2" -> 50 [] c = "3" -> 51
      [] c = "4" -> 52 [] c = "5" -> 53 [] c = "6" -> 54 [] c = "7" -> 55
      [] c = "8" -> 56 [] c = "9" -> 57
      [] c = ".. _" -> 46
      [] c = ": " -> 58
      [] c = Backquote -> 96
      [] c = "r" -> 114
      [] c = "saltstack/" -> 115
      [] c = "u" -> 117

\* a < b for Python strings.
StrLess(a, b) ==
    \E k \in 1..(Len(a) + 1) :
        /\ k <= Len(b)
        /\ \A j \in 1..(k - 1) : a[j] = b[j]
        /\ (k = Len(a) + 1 \/ (a[k] # b[k] /\ Ord(a[k]) < Ord(b[k])))

\* sorted(S) for a set of strings: the i-th item has i - 1 items below it.
Sorted(S) ==
    [i \in 1..Cardinality(S) |->
        CHOOSE x \in S : Cardinality({ y \in S : StrLess(y, x) }) = i - 1]

\* The decimal digits of n < 100.
Dec(n) ==
    LET digit(d) == CHOOSE c \in Digits : Ord(c) = 48 + d
    IN  IF n < 10 THEN <<digit(n)>> ELSE <<digit(n \div 10), digit(n % 10)>>

CeilingNever(lvl) == FALSE

\* Line 416, after level += 1.
CeilingExceeded(lvl) == lvl > 10

\* Lines 420-427: one round of _walk: what is walked after it and what it leaves
\* to walk.
WalkRound(issue_map, to_walk, done) ==
    [walked |-> done \cup (to_walk \cap DOMAIN issue_map),
     related |-> UNION { issue_map[item].related : item \in to_walk \cap DOMAIN issue_map }
                 \ (done \cup (to_walk \cap DOMAIN issue_map))]

\* _walk (lines 414-429): the walked set when _walk(to_walk) returns; after[k]
\* is what the k-th nested call leaves, a call that finds the ceiling exceeded
\* or nothing to walk leaving things as they are.
walk(issue_map, to_walk) ==
    LET after[k \in 0..(Cardinality(DOMAIN issue_map) + 1)] ==
            IF k = 0 THEN [walked |-> {}, related |-> to_walk]
            ELSE Only({ IF CeilingExceeded(k) \/ (k > 1 /\ prev.related = {})
                        THEN prev
                        ELSE WalkRound(issue_map, prev.related, prev.walked) :
                        prev \in {after[k - 1]} })
    IN  after[Cardinality(DOMAIN issue_map) + 1].walked

BucketsIssuesFirst(issue_map, done) ==
    SelectSeq(Sorted(done), LAMBDA item : issue_map[item].type = "ISSUE")
    \o SelectSeq(Sorted(done), LAMBDA item : issue_map[item].type = "PR")

\* Lines 432-436: sorted(walked) split by type, the PR bucket first.
Buckets(issue_map, done) ==
    SelectSeq(Sorted(done), LAMBDA item : issue_map[item].type = "PR")
    \o SelectSeq(Sorted(done), LAMBDA item : issue_map[item].type = "ISSUE")

walk_issues(issue_map, to_walk) ==
    Only({ Buckets(issue_map, done) : done \in {walk(issue_map, to_walk)} })

\* _walk is entered (level += 1) and finds the ceiling exceeded.
WalkCeiling ==
    /\ pc = "walk"
    /\ CeilingExceeded(level + 1)
    /\ level' = level + 1
    /\ pc' = "buckets"
    /\ UNCHANGED <<git_log_output, tracker, w_issues, w_to_walk, walked, w_rounds, w_refs>>
    /\ UNCHANGED resolveVars
    /\ UNCHANGED buildVars
    /\ UNCHANGED runVars
    /\ UNCHANGED worldVars

\* _walk is entered and performs one round; it recurses when related is left.
WalkExpand ==
    /\ pc = "walk"
    /\ ~CeilingExceeded(level + 1)
    /\ level' = level + 1
    /\ w_rounds' = w_rounds + 1
    /\ \E r \in {WalkRound(w_issues, w_to_walk, walked)} :
          /\ walked' = r.walked
          /\ w_to_walk' = r.related
          /\ pc' = IF r.related # {} THEN "walk" ELSE "buckets"
    /\ UNCHANGED <<git_log_output, tracker, w_issues, w_refs>>
    /\ UNCHANGED resolveVars
    /\ UNCHANGED buildVars
    /\ UNCHANGED runVars
    /\ UNCHANGED worldVars

\* Lines 432-436.
WalkReturn ==
    /\ pc = "buckets"
    /\ w_refs' = Buckets(w_issues, walked)
    /\ pc' = "walked"
    /\ UNCHANGED <<git_log_output, tracker, w_issues, w_to_walk, walked, level, w_rounds>>
    /\ UNCHANGED resolveVars
    /\ UNCHANGED buildVars
    /\ UNCHANGED runVars
    /\ UNCHANGED worldVars

-----------------------------------------------------------------------------
(* The cache: JSONSetEncoder, read_cache, write_cache, __make_cachedir and  *)
(* the lines 225-235 and 268-273 of __get_issue_data.  A JSON object (a    *)
(* dict) is the function from its keys to their values; every other JSON   *)
(* value is a record with the field json, and None has the field none.     *)

\* The value is a dict.
IsDict(v) == "json" \notin DOMAIN v /\ "none" \notin DOMAIN v

IsEntryNever(v) == FALSE

\* Lines 228-233 raise no KeyError: the dict has the four fields.
IsEntry(v) ==
    /\ IsDict(v)
    /\ {"timestamp", "git_log_output", "issue_data", "issue_revmap"} \subseteq DOMAIN v

\* What json.loads reads of the four fields that json.dump wrote with
\* cls=JSONSetEncoder (lines 268-273, 142-151): every set, the related of an
\* item and the values of the reverse map, is the sorted list of its elements.
JSONSetEncoder(ts, log, data, revmap) ==
    [timestamp |-> ts,
     git_log_output |-> log,
     issue_data |-> [k \in DOMAIN data |-> [data[k] EXCEPT !.related = Sorted(@)]],
     issue_revmap |-> [k \in DOMAIN revmap |-> Sorted(revmap[k])]]

read_cache_nothing(file, has_errno) == [error |-> "", value |-> NoFn]

\* read_cache, lines 508-528: the value returned, or the exception raised.  The
\* handler of OSError evaluates os.errno.ENOENT, an AttributeError when the os
\* module has no attribute errno.
read_cache(file, has_errno) ==
    CASE file.state = "json" -> [error |-> "", value |-> file.value]
      [] file.state = "empty" -> [error |-> "", value |-> NoFn]
      [] file.state = "invalid" -> [error |-> "", value |-> [error |-> TRUE]]
      [] file.state \in {"absent", "unreadable"} /\ ~has_errno ->
            [error |-> "AttributeError", value |-> None]
      [] file.state = "absent" /\ has_errno -> [error |-> "", value |-> NoFn]
      [] file.state = "unreadable" /\ has_errno ->
            [error |-> "", value |-> [error |-> TRUE]]

\* Lines 225-235 of __get_issue_data: the cache entry is read unless the cache
\* is ignored; the four fields of a dict are returned, a dict without one of
\* them (KeyError) is passed over, any other value raises TypeError at the
\* first subscript.  The lists of the entry are iterated in their order; the
\* walk and the format only iterate related, kept here as the set it lists.
TryCache ==
    /\ pc = "begin"
    /\ IF ignore_cache
       THEN /\ pc' = "start"
            /\ UNCHANGED <<git_log_output, issue_data, issue_revmap, cache, timestamp,
                           effects, error, exit_status>>
       ELSE \E r \in {read_cache(cache_file, os_errno)} :
               /\ effects' = effects \cup {"read_cache"}
               /\ cache' = r.value
               /\ error' = IF r.error # "" THEN r.error
                           ELSE IF ~IsDict(r.value) THEN "TypeError" ELSE ""
               /\ exit_status' = ExitStatus(main, error', {})
               /\ pc' = IF r.error # "" \/ ~IsDict(r.value) THEN "raised"
                        ELSE IF IsEntry(r.value) THEN "ready" ELSE "start"
               /\ IF r.error = "" /\ IsEntry(r.value)
                  THEN /\ timestamp' = r.value["timestamp"]
                       /\ git_log_output' = r.value["git_log_output"]
                       /\ issue_data' =
                            [k \in DOMAIN r.value["issue_data"] |->
                               [r.value["issue_data"][k] EXCEPT !.related = Range(@)]]
                       /\ issue_revmap' =
                            [k \in DOMAIN r.value["issue_revmap"] |->
                               Range(r.value["issue_revmap"][k])]
                  ELSE UNCHANGED <<git_log_output, issue_data, issue_revmap, timestamp>>
    /\ UNCHANGED <<tracker, release_issues, issue_nums, todo, related, query_count,
                   query_log, round>>
    /\ UNCHANGED walkVars
    /\ UNCHANGED buildVars
    /\ UNCHANGED worldVars

\* __make_cachedir, lines 284-294: the directory afterwards and the exception
\* raised.  os.makedirs creates an absent directory; of its OSError only EEXIST
\* is passed over, any other ends the run through __exit with its errno.
make_cachedir(dir, has_errno, eno, is_main) ==
    IF dir = "absent" THEN [cache_dir |-> "exists", error |-> "", exit_status |-> {}]
    ELSE IF ~has_errno
         THEN [cache_dir |-> dir, error |-> "AttributeError", exit_status |-> {}]
    ELSE IF dir = "exists" THEN [cache_dir |-> dir, error |-> "", exit_status |-> {}]
    ELSE [cache_dir |-> dir, error |-> exit(is_main, eno).error,
          exit_status |-> exit(is_main, eno).exit_status]

write_cache_skipped(file, dir, has_errno, eno, is_main, data) ==
    [cache_dir |-> dir, cache_file |-> file, error |-> "", exit_status |-> {}]

\* write_cache, lines 530-554: the directory and the file afterwards and the
\* exception raised.  The handler of the OSError of open reads exc, a name that
\* is not bound (line 545 has no "as exc"): NameError.
write_cache(file, dir, has_errno, eno, is_main, data) ==
    Only({ IF d.error # ""
           THEN [cache_dir |-> d.cache_dir, cache_file |-> file, error |-> d.error,
                 exit_status |-> d.exit_status]
           ELSE IF file.state = "unreadable"
                THEN [cache_dir |-> d.cache_dir, cache_file |-> file,
                      error |-> "NameError", exit_status |-> {}]
                ELSE [cache_dir |-> d.cache_dir,
                      cache_file |-> [state |-> "json", value |-> data],
                      error |-> "", exit_status |-> {}] :
           d \in {make_cachedir(dir, has_errno, eno, is_main)} })

\* Lines 268-275 of __get_issue_data: the resolved data is written to the
\* cache, whatever write_cache returns, and returned.
WriteCache ==
    /\ pc = "resolved"
    /\ effects' = effects \cup {"write_cache"}
    /\ \E w \in {write_cache(cache_file, cache_dir, os_errno, makedirs_errno, main,
                             JSONSetEncoder(timestamp, git_log_output, issue_data,
                                            issue_revmap))} :
          /\ cache_dir' = w.cache_dir
          /\ cache_file' = w.cache_file
          /\ error' = w.error
          /\ exit_status' = ExitStatus(main, w.error, w.exit_status)
          /\ pc' = IF w.error = "" THEN "ready" ELSE "raised"
    /\ UNCHANGED <<git_log_output, tracker, cache, timestamp, ignore_cache, os_errno,
                   clock, last_run, main, releases, returncode, environ_token,
                   token_file, makedirs_errno>>
    /\ UNCHANGED resolveVars
    /\ UNCHANGED walkVars
    /\ UNCHANGED buildVars

-----------------------------------------------------------------------------
(* build: the entries, lines 563-660 *)

\* The symbols that start with a character of [a-z0-9].
LowerOrDigit ==
    Digits \cup {"r", "bp-", "fix", "salt", "h", "u", "v", "t", "saltstack/", "own/",
                 "erge ", "pull request ", "from ", "see", "bug"}

\* startswith
StartsWith(s, p) == Len(s) >= Len(p) /\ SubSeq(s, 1, Len(p)) = p

\* Position of the first occurrence of sub in s at or after i, 0 when none.
Find(s, sub, i) ==
    IF \E k \in i..(Len(s) - Len(sub) + 1) : SubSeq(s, k, k + Len(sub) - 1) = sub
    THEN CHOOSE k \in i..(Len(s) - Len(sub) + 1) :
            /\ SubSeq(s, k, k + Len(sub) - 1) = sub
            /\ \A j \in i..(k - 1) : SubSeq(s, j, j + Len(sub) - 1) # sub
    ELSE 0

\* str.replace(old, new): the occurrences of old, left to right, not overlapping.
Replace(s, old, new) ==
    LET from[k \in 1..(Len(s) + 1)] ==
            IF k > Len(s) THEN <<>>
            ELSE IF k + Len(old) - 1 <= Len(s) /\ SubSeq(s, k, k + Len(old) - 1) = old
                 THEN new \o from[k + Len(old)]
                 ELSE <<s[k]>> \o from[k + 1]
    IN  from[1]

\* str.lstrip()
lstrip(s) == Slice(s, RunEnd({" "}, s, 1), Len(s) + 1)

\* Line 570: 'Merge pull request' in line
HasMerge(line) == Find(line, <<"M", "erge ", "pull request ">>, 1) # 0

\* self.merges once the lines from the last down to the i-th have been counted.
MergesFrom(log, i) == Cardinality({ k \in i..Len(log) : HasMerge(log[k]) })

\* Lines 591-594: the graph data up to the commit id becomes an asterisk at its
\* indentation level.
FormatPrefix(p) ==
    Only({ [i \in 1..(IF star = 0 THEN Len(p) ELSE star + 1) |->
              IF i = star THEN "*" ELSE " "] :
           star \in {Find(p, <<"*">>, 1)} })

\* Lines 582-598.
RewriteLine(line) ==
    Only({ IF j = 1 THEN line
           ELSE Only({ <<" ", " ">> \o FormatPrefix(p) \o Slice(line, j, Len(line) + 1) :
                       p \in {Slice(line, 1, j)} }) :
           j \in {RunEndNot(LowerOrDigit, line, 1)} })

\* Lines 574-598: the i-th line of the snapshot as the loop sees it.
PreparedLine(log, i) ==
    Only({ RewriteLine(line) :
           line \in { IF MergesFrom(log, i) = 0 THEN <<" ", " ">> \o log[i] ELSE log[i] } })

\* Line 605: re.search(r'pull request #(\d{5})', content).group(1), '' when
\* there is no match.
PullRequestNum(content) ==
    Only({ IF hits = {} THEN <<>>
           ELSE Only({ SubSeq(content, first + 2, first + 6) :
                       first \in {CHOOSE k \in hits : \A j \in hits : k <= j} }) :
           hits \in {{ k \in 1..Len(content) :
                         /\ k + 6 <= Len(content)
                         /\ content[k] = "pull request "
                         /\ content[k + 1] = "#"
                         /\ \A d \in 2..6 : IsDigit(content[k + d]) }} })

JNull == [json |-> "null"]

JStr(s) == [json |-> "string", str |-> s]

ValueError == [error |-> "ValueError"]

\* datetime.strptime(text, '%Y-%m-%dT%H:%M:%SZ')
strptime(text) ==
    IF Len(text) = 4 /\ text[2] = "T" /\ text[4] = "Z"
    THEN [date |-> text[1], time |-> text[3]]
    ELSE ValueError

\* datetime.strftime('%Y-%m-%d %H:%M:%S UTC')
strftime(dt) == <<dt.date, " ", dt.time, " UTC">>

\* ', '.join(['#{0}'.format(x) for x in order])
JoinRefs(order) ==
    LET from[k \in 1..(Len(order) + 1)] ==
            IF k > Len(order) THEN <<>>
            ELSE (IF k > 1 THEN <<",", " ">> ELSE <<>>) \o <<"#">> \o order[k] \o from[k + 1]
    IN  from[1]

\* Lines 640-649; order[ref] is the order in which the set issue_revmap[ref] is
\* iterated.
FormattedRefs(ref, order) ==
    IF ref \in DOMAIN order
    THEN <<" ", "(", "refs: ">> \o JoinRefs(order[ref]) \o <<")">>
    ELSE <<>>

\* __format_issue, lines 209-217, for an issue_id whose key is in issue_data.
format_issue(data, issue_id, formatted_refs) ==
    <<"**", data[lstrip_hash(issue_id)].type, "**", " ">>
    \o (IF Contains(issue_id, "#") THEN issue_id ELSE <<"#">> \o issue_id)
    \o <<":", " ", "(", "*">> \o data[lstrip_hash(issue_id)].user.login
    \o <<"*", ")", " ">> \o data[lstrip_hash(issue_id)].title \o formatted_refs

\* The sequences that enumerate the set S.
Perms(S) ==
    { p \in [1..Cardinality(S) -> S] : \A i, j \in 1..Cardinality(S) : p[i] = p[j] => i = j }

\* The orders in which the value sets of the reverse map can be iterated: one
\* order for each key.
RECURSIVE Orders(_)
Orders(revmap) ==
    IF DOMAIN revmap = {} THEN {revmap}
    ELSE { Put(f, CHOOSE k \in DOMAIN revmap : TRUE, p) :
             f \in Orders([x \in DOMAIN revmap \ {CHOOSE k \in DOMAIN revmap : TRUE}
                            |-> revmap[x]]),
             p \in Perms(revmap[CHOOSE k \in DOMAIN revmap : TRUE]) }

\* Lines 611-615: the refs of a prepared top-level line.
LineRefs(line, data) ==
    Only({ IF issue_num # <<>> /\ issue_num \notin Range(refs)
           THEN Append(refs, issue_num) ELSE refs :
           refs \in { walk_issues(data, { m[2] : m \in Range(issue_re_findall(line)) }) },
           issue_num \in { PullRequestNum(Slice(line, 5, Len(line) + 1)) } })

\* Lines 618-621.
EntryPrefix(ref, issue_num, data) ==
    IF ref = issue_num \/ (ref \in DOMAIN data /\ data[ref].type = "ISSUE")
    THEN <<>> ELSE <<" ", " ">>

\* The loop body of lines 617-657 raises: the closed_at of the merge's own PR
\* is null (TypeError of strptime), or the ref has no entry in issue_data
\* (KeyError of __format_issue).
EntryRaises(ref, issue_num, data) ==
    \/ ref = issue_num /\ ref \in DOMAIN data /\ data[ref].closed_at = JNull
    \/ lstrip_hash(ref) \notin DOMAIN data

\* Lines 622-636: the line noting when the merge's own PR was closed.
ClosedLine(ref, issue_num, data) ==
    IF /\ ref = issue_num
       /\ ref \in DOMAIN data
       /\ data[ref].closed_at # JNull
       /\ strptime(data[ref].closed_at.str) # ValueError
    THEN << EntryPrefix(ref, issue_num, data) \o <<" ", " ", "@", " ", "*">>
            \o strftime(strptime(data[ref].closed_at.str)) \o <<"*">> >>
    ELSE <<>>

\* Lines 617-657 for one ref that does not raise: the lines appended to result.
EntryLines(ref, issue_num, data, order) ==
    ClosedLine(ref, issue_num, data)
    \o << EntryPrefix(ref, issue_num, data) \o <<"*", " ">>
          \o format_issue(data, ref, FormattedRefs(ref, order)),
          <<>> >>

EntryCountsAllIssues(ref, data, order) == [issues |-> 1, pulls |-> 0]

\* Lines 653-656: what the entry of ref adds to self.issues and to self.pulls.
EntryCounts(ref, data, order) ==
    IF Contains(format_issue(data, ref, FormattedRefs(ref, order)), "ISSUE")
    THEN [issues |-> 1, pulls |-> 0]
    ELSE IF Contains(format_issue(data, ref, FormattedRefs(ref, order)), "PR")
         THEN [issues |-> 0, pulls |-> 1]
         ELSE [issues |-> 0, pulls |-> 0]

\* Lines 617-657: the loop over the refs of one line.
EntriesOf(refs, issue_num, data, order) ==
    LET after[k \in 0..Len(refs)] ==
            IF k = 0 THEN [lines |-> <<>>, issues |-> 0, pulls |-> 0, raised |-> FALSE]
            ELSE Only({ IF prev.raised THEN prev
                        ELSE IF EntryRaises(refs[k], issue_num, data)
                             THEN [prev EXCEPT !.raised = TRUE]
                             ELSE [lines |-> prev.lines
                                             \o EntryLines(refs[k], issue_num, data, order),
                                   issues |-> prev.issues
                                              + EntryCounts(refs[k], data, order).issues,
                                   pulls |-> prev.pulls
                                             + EntryCounts(refs[k], data, order).pulls,
                                   raised |-> FALSE] :
                        prev \in {after[k - 1]} })
    IN  after[Len(refs)]

\* Lines 602-660 for one prepared line.
LineEntries(line, data, order) ==
    IF StartsWith(line, <<" ", " ", "*", " ">>)
    THEN Only({ [e EXCEPT !.lines = (IF issue_num # <<>> THEN <<line, <<>>>> ELSE <<>>)
                                    \o e.lines] :
                issue_num \in { PullRequestNum(Slice(line, 5, Len(line) + 1)) },
                e \in { EntriesOf(refs, PullRequestNum(Slice(line, 5, Len(line) + 1)),
                                  data, order) :
                        refs \in { LineRefs(line, data) } } })
    ELSE IF Contains(line, "*")
         THEN [lines |-> <<Slice(line, 3, Len(line) + 1), <<>>>>,
               issues |-> 0, pulls |-> 0, raised |-> FALSE]
         ELSE [lines |-> <<>>, issues |-> 0, pulls |-> 0, raised |-> FALSE]

\* Lines 563-660: the loop over the reversed snapshot; after[k] is the state
\* once the last k lines are done.
BuildEntriesOf(log, data, order) ==
    LET after[k \in 0..Len(log)] ==
            IF k = 0
            THEN [result |-> <<>>, merges |-> 0, issues |-> 0, pulls |-> 0, raised |-> FALSE]
            ELSE Only({ IF prev.raised THEN prev
                        ELSE Only({ [result |-> prev.result \o e.lines,
                                     merges |-> MergesFrom(log, Len(log) - k + 1),
                                     issues |-> prev.issues + e.issues,
                                     pulls |-> prev.pulls + e.pulls,
                                     raised |-> e.raised] :
                                    e \in { LineEntries(line, data, order) :
                                             line \in {PreparedLine(log, Len(log) - k + 1)} } }) :
                        prev \in {after[k - 1]} })
    IN  after[Len(log)]

\* The orders in which build iterates the values of the reverse map: any order
\* of a set that resolution made, the order of the list that the cache entry
\* holds (lines 226-234).
RefOrders(revmap, entry) ==
    IF IsEntry(entry) THEN {entry["issue_revmap"]} ELSE Orders(revmap)

\* build up to line 660, with the data that __get_issue_data returned.
BuildEntries ==
    /\ pc = "ready"
    /\ \E order \in RefOrders(issue_revmap, cache) :
         \E b \in { IF strptime(timestamp) = ValueError
                     THEN [result |-> <<>>, merges |-> 0, issues |-> 0, pulls |-> 0,
                           raised |-> TRUE]
                     ELSE BuildEntriesOf(git_log_output, issue_data, order) } :
            /\ result' = b.result
            /\ merges' = b.merges
            /\ issues' = b.issues
            /\ pulls' = b.pulls
            /\ pc' = IF b.raised THEN "raised" ELSE "entries"
            /\ error' = IF strptime(timestamp) = ValueError THEN "ValueError"
                        ELSE IF b.raised THEN "KeyError or TypeError" ELSE error
            /\ exit_status' = ExitStatus(main, error', exit_status)
    /\ UNCHANGED <<git_log_output, tracker, links, contributors, report, cache,
                   timestamp, effects>>
    /\ UNCHANGED resolveVars
    /\ UNCHANGED walkVars
    /\ UNCHANGED worldVars

-----------------------------------------------------------------------------
(* build: the link targets, lines 664-703 *)

\* __linkify
linkify(text) == <<Backquote>> \o text \o <<Backquote, "_">>

LinkKeyNumber(issue_id) ==
    lstrip_hash(Slice(issue_id, Find(issue_id, <<"#">>, 1), Len(issue_id) + 1))

\* Line 672.
LinkKey(issue_id) == lstrip_hash(issue_id)

\* Line 673.
LinkSkipped(m, data) ==
    m[3] # NotTruncated \/ ~Contains(m[1], "#") \/ LinkKey(m[1]) \notin DOMAIN data

\* Lines 678-685, for a match that is not skipped.
IssueLink(m, data) ==
    <<".. _", Backquote>> \o m[1] \o <<Backquote, ": ", "https://github.com/">>
    \o split_repo_and_issue(m[1])[1]
    \o <<"/", IF data[LinkKey(m[1])].type = "PR" THEN "pull" ELSE "issues", "/">>
    \o m[2]

\* Lines 671-676 when the matches that are not skipped come in this order.
RewriteIn(line, ids) ==
    LET after[k \in 0..Len(ids)] ==
            IF k = 0 THEN line
            ELSE Only({ Replace(linked, <<"\\">>, <<"\\", "\\">>) :
                        linked \in { Replace(prev, ids[k], linkify(ids[k])) :
                                     prev \in {after[k - 1]} } })
    IN  after[Len(ids)]

\* What the loop of lines 671-685 can make of a line: the set of matches is
\* iterated in any order.
Rewrites(line, data) ==
    { RewriteIn(line, ids) :
        ids \in UNION { Perms(found) :
                        found \in {{ m[1] : m \in { x \in Range(issue_re_findall(line)) :
                                                      ~LinkSkipped(x, data) } }} } }

\* The symbols that start with an asterisk.
Stars == {"*", "**"}

NotStar(c) == c \notin Stars

\* user_re, line 157 (digits, backquote, '_: (', '*', the user, '*', ')'),
\* matched at i: where the digits
\* end and where the match ends (exclusive); <<0, 0>> when it does not match.
UserReMatchAt(s, i) ==
    IF ~IsDigit(s[i]) THEN <<0, 0>>
    ELSE Only({ IF /\ j + 7 <= Len(s)
                   /\ SubSeq(s, j, j + 5) = <<Backquote, "_", ":", " ", "(", "*">>
                THEN Only({ IF k > j + 6 /\ k + 1 <= Len(s) /\ s[k] = "*" /\ s[k + 1] = ")"
                            THEN <<j, k + 2>> ELSE <<0, 0>> :
                            k \in {RunEndNot(Stars, s, j + 6)} })
                ELSE <<0, 0>> :
                j \in {RunEnd(Digits, s, i)} })

\* user_re.search(line).group(2); <<>> when there is no match.
UserReSearch(s) ==
    Only({ IF hits = {} THEN <<>>
           ELSE Only({ Slice(s, m[1] + 6, m[2] - 2) :
                       m \in { UserReMatchAt(s, CHOOSE i \in hits : \A k \in hits : i <= k) } }) :
           hits \in {{ i \in 1..Len(s) : UserReMatchAt(s, i) # <<0, 0>> }} })

\* user_re.sub at line 695: the user without its asterisks, as a link.
UserReSub(s) ==
    LET from[k \in 1..(Len(s) + 1)] ==
            IF k > Len(s) THEN <<>>
            ELSE Only({ IF m = <<0, 0>> THEN <<s[k]>> \o from[k + 1]
                        ELSE Slice(s, k, m[1] + 5) \o linkify(Slice(s, m[1] + 6, m[2] - 2))
                             \o <<")">> \o from[m[2]] :
                        m \in {UserReMatchAt(s, k)} })
    IN  from[1]

UserLink(user) == <<".. _", Backquote>> \o user \o <<Backquote, ": ", "https://github.com/">> \o user

\* Lines 668-703 for one line of result, rewritten is what lines 671-676 made of
\* it: the line, its link targets and its contributors.
LinkedLine(line, rewritten, data) ==
    Only({ [line |-> IF user = <<>> THEN rewritten ELSE UserReSub(rewritten),
            links |-> { IssueLink(m, data) :
                          m \in { x \in Range(issue_re_findall(line)) :
                                    ~LinkSkipped(x, data) } }
                      \cup (IF user = <<>> THEN {} ELSE {UserLink(user)}),
            contributors |-> IF user # <<>> /\ Find(rewritten, <<"**", "PR", "**">>, 1) # 0
                             THEN {user} ELSE {}] :
           user \in {UserReSearch(rewritten)} })

\* The outcomes of the loop of lines 668-703: one LinkedLine for every line.
LinkedLines(lines, data) ==
    LET upto[k \in 0..Len(lines)] ==
            IF k = 0 THEN {<<>>}
            ELSE { Append(t, LinkedLine(lines[k], r, data)) :
                     t \in upto[k - 1], r \in Rewrites(lines[k], data) }
    IN  upto[Len(lines)]

\* build, lines 664-703.
BuildLinks ==
    /\ pc = "entries"
    /\ \E linked \in LinkedLines(result, issue_data) :
          /\ result' = [i \in 1..Len(linked) |-> linked[i].line]
          /\ links' = UNION { linked[i].links : i \in 1..Len(linked) }
          /\ contributors' = UNION { linked[i].contributors : i \in 1..Len(linked) }
    /\ pc' = "linked"
    /\ UNCHANGED <<git_log_output, tracker, merges, issues, pulls, report>>
    /\ UNCHANGED resolveVars
    /\ UNCHANGED walkVars
    /\ UNCHANGED runVars
    /\ UNCHANGED worldVars

-----------------------------------------------------------------------------
(* build: the document, lines 706-754 *)

\* self.rev_range
RevRange == <<"v", ".", ".", "t">>

Reverse(s) == [i \in 1..Len(s) |-> s[Len(s) + 1 - i]]

\* ', '.join(items)
JoinComma(items) ==
    LET from[k \in 1..(Len(items) + 1)] ==
            IF k > Len(items) THEN <<>>
            ELSE (IF k > 1 THEN <<",", " ">> ELSE <<>>) \o items[k] \o from[k + 1]
    IN  from[1]

\* Lines 707-731.
ReportHead(m, i, p, users, ts) ==
    << <<"Statistics">>, <<"==========">>, <<>>,
       <<"- Total Merges: **">> \o Dec(m) \o <<"**">>,
       <<"- Total Issue References: **">> \o Dec(i) \o <<"**">>,
       <<"- Total PR References: **">> \o Dec(p) \o <<"**">>,
       <<>>,
       <<"- Contributors: **">> \o Dec(Cardinality(users)) \o <<"**", " ", "(">>
       \o JoinComma([k \in 1..Cardinality(users) |-> linkify(Sorted(users)[k])])
       \o <<")">>,
       <<>>, <<>>, <<"INSERT RELEASE NOTES BODY HERE">>, <<>>, <<>>,
       <<"Changelog for ">> \o RevRange,
       [k \in 1..(14 + Len(RevRange)) |-> "="],
       <<>>,
       <<"*Generated at: ">> \o strftime(strptime(ts)) \o <<"*">> >>

\* Index of the last line of lines that starts with '*', 0 when there is none.
LastBullet(lines) ==
    IF \E i \in 1..Len(lines) : lines[i] # <<>> /\ ~NotStar(lines[i][1])
    THEN CHOOSE i \in 1..Len(lines) :
            /\ lines[i] # <<>> /\ ~NotStar(lines[i][1])
            /\ \A j \in (i + 1)..Len(lines) : lines[j] = <<>> \/ NotStar(lines[j][1])
    ELSE 0

\* Lines 737-741: -1, less one for every line that the loop over the reversed
\* list passes before it breaks at a line that starts with '*'.
first_issue_index(lines) == -1 - (Len(lines) - LastBullet(lines))

\* The index at which a slice of step -1 over n items starts or stops, given
\* as i: counted from the end when negative, then clipped to -1..n - 1.
SliceIndex(i, n) ==
    IF i < 0
    THEN (IF i + n < 0 THEN -1 ELSE i + n)
    ELSE (IF i >= n THEN n - 1 ELSE i)

\* s[start:stop:-1] for the indices of Python, which count from 0; the items
\* from start down to the one above stop.
SliceDown(s, start, stop) ==
    [k \in 1..(IF SliceIndex(start, Len(s)) > SliceIndex(stop, Len(s))
               THEN SliceIndex(start, Len(s)) - SliceIndex(stop, Len(s)) ELSE 0) |->
        s[SliceIndex(start, Len(s)) - k + 2]]

\* s[start::-1]: the items from start down to the first.
SliceDownToFirst(s, start) ==
    [k \in 1..(SliceIndex(start, Len(s)) + 1) |-> s[SliceIndex(start, Len(s)) - k + 2]]

ReportBodyAsBuilt(lines) == lines

\* Lines 742-745: result[-1:first_issue_index:-1] with its lines stripped, then
\* result[first_issue_index::-1].
ReportBody(lines) ==
    Only({ [k \in 1..Len(SliceDown(lines, -1, fi)) |-> lstrip(SliceDown(lines, -1, fi)[k])]
           \o SliceDownToFirst(lines, fi) :
           fi \in {first_issue_index(lines)} })

ReportTailAlways(defs) == <<<<>>>> \o Sorted(defs) \o <<<<>>>>

\* Lines 747-752.
ReportTail(defs) ==
    (IF defs # {} THEN <<<<>>>> \o Sorted(defs) ELSE <<>>) \o <<<<>>>>

\* build, lines 706-754; report holds the lines that are joined by '\n'.
BuildReport ==
    /\ pc = "linked"
    /\ report' = ReportHead(merges, issues, pulls, contributors, timestamp)
                 \o ReportBody(result) \o ReportTail(links)
    /\ pc' = "built"
    /\ UNCHANGED <<git_log_output, tracker, result, links, merges, issues, pulls,
                   contributors>>
    /\ UNCHANGED resolveVars
    /\ UNCHANGED walkVars
    /\ UNCHANGED runVars
    /\ UNCHANGED worldVars

-----------------------------------------------------------------------------
(* The inputs of a run *)

N1 == <<"1">>
N2 == <<"2">>
NM == <<"1", "0", "0", "0", "1">>
QR == <<"saltstack/", "r", "#", "1">>

User == [login |-> <<"u">>]

Date == JStr(<<"2018-01-01", "T", "00:00:00", "Z">>)

PR(title, body, closed) ==
    [pull_request |-> TRUE, title |-> title, body |-> body, user |-> User,
     closed_at |-> closed]

ISSUE(title, body) ==
    [pull_request |-> FALSE, title |-> title, body |-> body, user |-> User,
     closed_at |-> JNull]

ItemsOfNM ==
    { HTTPError,
      PR(<<"fix">>, << <<"#", "1">> >>, Date),
      PR(<<"fix", " ", "#", "2">>, << <<"#", "1">> >>, Date),
      PR(<<"fix">>, << <<"#", "1", " ", "saltstack/", "r", "#", "1">> >>, JNull),
      PR(<<"fix">>, << <<"#", "1", "0", "0", "0", "1">> >>, Date),
      PR(<<"fix", " ", "ISSUE">>, << <<"#", "1">> >>, Date) }

ItemsOfN1 ==
    { HTTPError,
      ISSUE(<<"bug">>, <<>>),
      ISSUE(<<"bug">>, << <<"see", " ", "#", "2">> >>),
      PR(<<"fix">>, << <<"#", "2">> >>, JNull),
      PR(<<"fix">>, << <<"#", "1">> >>, JNull),
      PR(<<"fix">>, << <<"bp-", "2">>, <<"#", "2", Ellipsis>> >>, JNull) }

ItemsOfN2 ==
    { HTTPError,
      ISSUE(<<"bug">>, <<>>),
      PR(<<"fix">>, << <<"#", "1">> >>, JNull) }

ItemsOfQR ==
    { HTTPError,
      ISSUE(<<"bug">>, <<>>) }

Targets ==
    { <<HomeRepo, N1>>, <<HomeRepo, N2>>, <<HomeRepo, NM>>, <<<<"saltstack/", "r">>, N1>> }

Trackers ==
    { t \in [Targets -> ItemsOfNM \cup ItemsOfN1 \cup ItemsOfN2 \cup ItemsOfQR] :
        /\ t[<<HomeRepo, N1>>] \in ItemsOfN1
        /\ t[<<HomeRepo, N2>>] \in ItemsOfN2
        /\ t[<<HomeRepo, NM>>] \in ItemsOfNM
        /\ t[<<<<"saltstack/", "r">>, N1>>] \in ItemsOfQR }

\* A log as git log --graph --topo-order --oneline prints it, the newest commit
\* first: a commit after the merge, the merge of pull request 10001 with its
\* two commits, and a commit before the merge; "h" is a commit id.
FullLog ==
    << <<"*", " ", "h", " ", "see", " ", "saltstack/", "r", "#", "1">>,
       <<"*", " ", " ", " ", "h", " ", "M", "erge ", "pull request ",
         "#", "1", "0", "0", "0", "1", " ", "from ", "own/", "fix">>,
       <<"|", " ", "*", " ", "h", " ", "fix", " ", "#", "1">>,
       <<"|", " ", "*", " ", "h", " ", "fix", " ", "#", "1", Ellipsis>>,
       <<"*", " ", "h", " ", "fix", " ", "#", "2", " ", "bp-", "1">> >>

MaxLogLines == 2

\* The lines of FullLog at the positions S, in the order of FullLog.
LogOf(S) ==
    [k \in 1..Cardinality(S) |->
        FullLog[CHOOSE i \in S : Cardinality({ j \in S : j < i }) = k - 1]]

\* A commit whose subject git log cut short inside a reference to #1, made
\* after the merge of pull request 10001.
TruncatedLog ==
    << <<"*", " ", "h", " ", "fix", " ", "#", "1", Ellipsis>>, FullLog[2] >>

\* The snapshots: what the rev range holds of FullLog, and TruncatedLog.
Snapshots ==
    { LogOf(S) : S \in { T \in SUBSET (1..Len(FullLog)) : Cardinality(T) <= MaxLogLines } }
    \cup { TruncatedLog }

\* A first run, with an empty cache.
Init ==
    /\ git_log_output \in Snapshots
    /\ tracker \in Trackers
    /\ pc = "begin"
    /\ ResolveIdle
    /\ WalkIdle
    /\ BuildIdle
    /\ RunIdle
    /\ WorldIdle

\* __get_issue_data.
GetIssueData ==
    \/ TryCache
    \/ GetSeeds
    \/ QueryIssues
    \/ GatherStep
    \/ GatherRecurse
    \/ GatherReturn
    \/ WriteCache

Next ==
    \/ GetIssueData
    \/ BuildEntries
    \/ BuildLinks
    \/ BuildReport

Spec == Init /\ [][Next]_vars

\* A call of __get_issue_data that has not returned goes on.
FairSpec == Spec /\ WF_vars(GetIssueData)

-----------------------------------------------------------------------------
(* Several runs over one cache directory *)

\* The program is started again (lines 810-837): the cache directory is what the
\* runs before left, the option is given anew, time has passed, and the
\* repository and the tracker are as before or hold nothing any more.
NewRun ==
    /\ pc \in {"built", "raised"}
    /\ last_run' = [built |-> pc = "built", report |-> report, effects |-> effects,
                    hit |-> IsEntry(cache)]
    /\ pc' = "begin"
    /\ ignore_cache' \in BOOLEAN
    /\ clock' = <<"2018-01-03", "T", "00:00:00", "Z">>
    /\ \E gone \in BOOLEAN :
          /\ tracker' = IF gone THEN [t \in DOMAIN tracker |-> HTTPError] ELSE tracker
          /\ git_log_output' = IF gone THEN <<>> ELSE git_log_output
    /\ release_issues' = {}
    /\ issue_nums' = {}
    /\ todo' = {}
    /\ related' = {}
    /\ issue_data' = NoFn
    /\ issue_revmap' = NoFn
    /\ query_count' = NoFn
    /\ query_log' = {}
    /\ round' = 0
    /\ result' = <<>>
    /\ links' = {}
    /\ merges' = 0
    /\ issues' = 0
    /\ pulls' = 0
    /\ contributors' = {}
    /\ report' = <<>>
    /\ cache' = None
    /\ timestamp' = <<>>
    /\ effects' = {}
    /\ error' = ""
    /\ exit_status' = {}
    /\ UNCHANGED <<os_errno, cache_dir, cache_file, main, releases, returncode,
                   environ_token, token_file, makedirs_errno>>
    /\ UNCHANGED walkVars

N100 == <<"1", "0", "0">>
N50 == <<"5", "0">>

\* A merge of pull request #100, which build does not take for a pull request
\* number (line 605 wants five digits), above a commit that fixes #50.
ScenarioLogs ==
    { << <<"*", " ", "M", "erge ", "pull request ", "#", "1", "0", "0">> \o rest,
         <<"*", " ", "fix", " ", "bug", " ", "#", "5", "0">> >> :
      rest \in { <<" ", "from ", "own/", "fix">>, <<" ", "fix">> } }

\* Trackers with the pull request #100, whose body references #50, and the
\* issue #50.
ScenarioTrackers ==
    { (<<HomeRepo, N100>> :> PR(title, <<body>>, closed))
      @@ (<<HomeRepo, N50>> :> ISSUE(<<"bug">>, text)) :
      title \in { <<"fix">>, <<"fix", " ", "#", "5", "0">> },
      body \in { <<"#", "5", "0">>, <<"fix", " ", "#", "5", "0", " ", "bp-", "5", "0">> },
      closed \in { Date, JNull },
      text \in { <<>>, << <<"see", " ", "#", "1", "0", "0">> >> } }

\* The cache directory and the cache file a run can find.  The file of a
\* blocked directory, one that is not there and cannot be made, cannot be there.
CacheStates ==
    { <<"absent", NoFile>>, <<"blocked", NoFile>>,
      <<"blocked", [state |-> "unreadable", value |-> NoFn]>>,
      <<"exists", NoFile>>,
      <<"exists", [state |-> "unreadable", value |-> NoFn]>>,
      <<"exists", [state |-> "empty", value |-> NoFn]>>,
      <<"exists", [state |-> "invalid", value |-> NoFn]>>,
      <<"exists", [state |-> "json", value |-> NoFn]>>,
      <<"exists", [state |-> "json", value |-> [json |-> "array"]]>>,
      <<"exists", [state |-> "json", value |-> [timestamp |-> Timestamp]]>>,
      <<"exists", [state |-> "json",
                   value |-> JSONSetEncoder(Timestamp, <<FullLog[5]>>,
                                            (N2 :> StoredIssue(ISSUE(<<"bug">>, <<>>), {})),
                                            NoFn)]>> }

\* Runs over one cache directory: the scenario, and snapshots of FullLog whose
\* pull requests reference one another, from an empty cache; and the scenario
\* with everything a run can find in the cache directory.
InitRuns ==
    /\ \/ /\ \/ git_log_output \in ScenarioLogs /\ tracker \in ScenarioTrackers
             \/ /\ git_log_output \in { LogOf({2, 3}), LogOf({3, 5}) }
                /\ tracker \in { t \in Trackers : t[<<<<"saltstack/", "r">>, N1>>] = HTTPError }
          /\ cache_dir = "absent"
          /\ cache_file = NoFile
       \/ /\ git_log_output \in ScenarioLogs
          /\ tracker \in { t \in ScenarioTrackers : t[<<HomeRepo, N100>>].closed_at = Date }
          /\ \E c \in CacheStates : cache_dir = c[1] /\ cache_file = c[2]
    /\ ignore_cache \in BOOLEAN
    /\ os_errno \in BOOLEAN
    /\ clock = Timestamp
    /\ HostIdle
    /\ pc = "begin"
    /\ ResolveIdle
    /\ WalkIdle
    /\ BuildIdle
    /\ RunIdle

SpecRuns == InitRuns /\ [][Next \/ NewRun]_vars

-----------------------------------------------------------------------------
(* The runs that fail: as the command and as a library *)

\* What a token file can hold: the line add_token writes (line 503), nothing,
\* and text that is no token.
TokenFiles ==
    { [state |-> "text", value |-> v] :
        v \in { <<"t", "1", "\n">>, <<>>, <<" ", "t", "-", "1", "\n">> } }
    \cup { [state |-> "unreadable", value |-> <<>>] }

\* One run from the construction of the object on, over a merge of pull
\* request #100 whose body references the issue #50: the way the module is
\* run, the releases, the exit status of git, the token, the cache directory
\* (EPERM, ENOENT and ENOTDIR when it cannot be made) and the runtime vary.
InitExit ==
    /\ git_log_output = << <<"*", " ", "M", "erge ", "pull request ", "#", "1", "0", "0",
                             " ", "fix">> >>
    /\ tracker = (<<HomeRepo, N100>> :> PR(<<"fix">>, << <<"#", "5", "0">> >>, Date))
                 @@ (<<HomeRepo, N50>> :> ISSUE(<<"bug">>, <<>>))
    /\ main \in BOOLEAN
    /\ releases \in { <<"v1", "v2">>, <<"v1", "v1">> }
    /\ returncode \in {0, 128}
    /\ environ_token \in { <<>>, <<"t", "1">>, <<"t", "-", "1">> }
    /\ \/ /\ cache_dir \in {"absent", "exists"}
          /\ makedirs_errno = 20
       \/ /\ cache_dir = "blocked"
          /\ makedirs_errno \in {1, 2, 20}
    /\ token_file \in { [state |-> "absent", value |-> <<>>] }
                      \cup { f \in TokenFiles : cache_dir = "exists" }
    /\ cache_file = NoFile
    /\ ignore_cache \in BOOLEAN
    /\ os_errno \in BOOLEAN
    /\ clock = Timestamp
    /\ pc = "new"
    /\ ResolveIdle
    /\ WalkIdle
    /\ BuildIdle
    /\ RunIdle

SpecExit == InitExit /\ [][Construct \/ Next]_vars

-----------------------------------------------------------------------------
(* Resolution *)

ResolutionReturned == pc \notin {"begin", "start", "seeded", "gather"}

Ids == {N1, N2, NM, QR}

\* What the tracker answers for an identifier.
Answer(id) ==
    IF Contains(id, "#")
    THEN tracker[<<<<"saltstack/", "r">>, N1>>]
    ELSE tracker[<<HomeRepo, id>>]

\* C1: within one resolution no identifier is queried more than once.
C1_AtMostOneQuery ==
    \A id \in DOMAIN query_count : query_count[id] <= 1

\* C2: resolution returns, whatever the seeds and the tracker hold; a round is
\* followed by another one exactly when it collected an identifier for it, and
\* there are never more rounds than identifiers plus one.
C2_ResolutionTerminates ==
    /\ <>ResolutionReturned
    /\ [](round <= Cardinality(Ids) + 1)
    /\ [][(pc = "gather" /\ todo = {}) =>
            IF related = {}
            THEN pc' = "resolved" /\ round' = round
            ELSE pc' = "gather" /\ round' = round + 1 /\ todo' = related]_vars

\* Resolution returned although two pull requests reference each other and a
\* fetch failed.
C2_Witness ==
    /\ pc = "resolved"
    /\ N1 \in DOMAIN issue_data /\ N2 \in DOMAIN issue_data
    /\ N2 \in issue_data[N1].related
    /\ N1 \in issue_data[N2].related
    /\ \E id \in DOMAIN query_count : Answer(id) = HTTPError

C8_QueryTarget ==
    \A q \in query_log :
        /\ ~Contains(q[1], "#") => q[2] = HomeRepo /\ q[3] = q[1]
        /\ \A repo \in {<<"saltstack/", "r">>}, n \in {N1, N2} :
              q[1] = repo \o <<"#">> \o n => q[2] = repo /\ q[3] = n

\* Both a qualified and an unqualified identifier were queried.
C8_Witness ==
    /\ \E q \in query_log : q[1] = QR /\ q[2] = <<"saltstack/", "r">> /\ q[3] = N1
    /\ \E q \in query_log : q[1] = N1 /\ q[2] = HomeRepo

\* C10: once resolution has returned, every identifier in a value set of the
\* reverse map is a key of the issue map, fetched as a pull request.
C10_RevmapValuesResolved ==
    ResolutionReturned =>
        \A k \in DOMAIN issue_revmap :
            \A v \in issue_revmap[k] :
                v \in DOMAIN issue_data /\ issue_data[v].type = "PR"

\* The reverse map has a key whose fetch failed, referenced by a fetched PR.
C10_Witness ==
    /\ pc = "resolved"
    /\ \E k \in DOMAIN issue_revmap :
          /\ k \notin DOMAIN issue_data
          /\ issue_revmap[k] # {}

-----------------------------------------------------------------------------
(* The document *)

\* The link-target definitions of a document.
LinkTable(doc) == { doc[i] : i \in { k \in 1..Len(doc) : doc[k] # <<>> /\ doc[k][1] = ".. _" } }

\* A link-target definition of an issue or of a pull request.
IsIssueLink(def) == Contains(def, "issues") \/ Contains(def, "pull")

\* The identifier a link-target definition is for.
LinkTargetId(def) == Slice(def, 3, Find(def, <<Backquote, ": ">>, 1))

\* C9: every link-target definition of an issue or a pull request, in the link
\* set and in the document, is for an identifier that has an entry in the
\* issue map.
C9_LinksResolved ==
    /\ pc \in {"linked", "built"} =>
          \A def \in links :
              IsIssueLink(def) => lstrip_hash(LinkTargetId(def)) \in DOMAIN issue_data
    /\ pc = "built" =>
          /\ LinkTable(report) = links
          /\ \A def \in LinkTable(report) :
                IsIssueLink(def) => lstrip_hash(LinkTargetId(def)) \in DOMAIN issue_data

\* A document with a link table whose body references saltstack/r#1, the fetch
\* of which failed.
C9_Witness ==
    /\ pc = "built"
    /\ \E def \in LinkTable(report) : IsIssueLink(def)
    /\ QR \in DOMAIN query_count
    /\ QR \notin DOMAIN issue_data
    /\ \E i \in 1..Len(report) : report[i] \notin LinkTable(report) /\ Find(report[i], QR, 1) # 0

-----------------------------------------------------------------------------
(* The walk on its own: small issue maps of any shape, and long chains *)

WalkIds == { <<"2">>, <<"1", "0">>, <<"9">> }

MaxRelated == 2

MaxChain == 12

WalkEntries ==
    { [type |-> "ISSUE", related |-> {}] }
    \cup { [type |-> "PR", related |-> r] :
             r \in { x \in SUBSET WalkIds : Cardinality(x) <= MaxRelated } }

SmallMaps == UNION { [d -> WalkEntries] : d \in SUBSET WalkIds }

\* 1 -> 2 -> ... -> n, every item a PR but for the last when lastIssue, the last
\* referencing the first when cyclic.
Chain(n, lastIssue, cyclic) ==
    [id \in { Dec(k) : k \in 1..n } |->
        LET k == CHOOSE x \in 1..n : Dec(x) = id
        IN  IF k = n /\ lastIssue THEN [type |-> "ISSUE", related |-> {}]
            ELSE [type |-> "PR",
                  related |-> IF k < n THEN {Dec(k + 1)}
                              ELSE IF cyclic THEN {Dec(1)} ELSE {}]]

InitWalk ==
    /\ \/ /\ w_issues \in SmallMaps
          /\ w_to_walk \in SUBSET WalkIds \ {{}}
       \/ /\ w_issues \in { Chain(n, b, c) : n \in 1..MaxChain, b, c \in BOOLEAN }
          /\ w_to_walk = {Dec(1)}
    /\ walked = {}
    /\ level = 0
    /\ w_rounds = 0
    /\ w_refs = <<>>
    /\ pc = "walk"
    /\ git_log_output = <<>>
    /\ tracker = NoFn
    /\ ResolveIdle
    /\ BuildIdle
    /\ RunIdle
    /\ WorldIdle

NextWalk ==
    \/ WalkCeiling
    \/ WalkExpand
    \/ WalkReturn

SpecWalk == InitWalk /\ [][NextWalk]_vars

FairSpecWalk == SpecWalk /\ WF_vars(NextWalk)

\* C3: the walk returns, after at most 10 expansion rounds, whatever the map
\* holds; when it returns (ceiling hit or not) the list holds the walked ids.
C3_WalkTerminates ==
    /\ <>(pc = "walked")
    /\ [](w_rounds <= 10)
    /\ [](pc = "walked" => Range(w_refs) = walked /\ Len(w_refs) = Cardinality(walked))

\* The walk returned after it hit the ceiling on a chain that ends in a cycle.
C3_Witness ==
    /\ pc = "walked"
    /\ level = 11
    /\ Cardinality(walked) = 10
    /\ Dec(MaxChain) \in DOMAIN w_issues
    /\ Dec(1) \in w_issues[Dec(MaxChain)].related

\* C4: in the returned list every PR comes before every ISSUE, and the ids of
\* the same type are in ascending string order.
C4_BucketOrder ==
    pc = "walked" =>
        \A i, j \in 1..Len(w_refs) :
            i < j =>
                /\ w_issues[w_refs[i]].type = "ISSUE" => w_issues[w_refs[j]].type = "ISSUE"
                /\ w_issues[w_refs[i]].type = w_issues[w_refs[j]].type
                      => StrLess(w_refs[i], w_refs[j])

\* A returned list with a PR and two ISSUEs, of which 10 sorts before 9.
C4_Witness ==
    /\ pc = "walked"
    /\ w_refs = << <<"2">>, <<"1", "0">>, <<"9">> >>
    /\ w_issues[<<"2">>].type = "PR"
    /\ w_issues[<<"9">>].type = "ISSUE"

-----------------------------------------------------------------------------
(* The entries of the document, lines 600-660 and 706-754 *)

\* Lines 602-610: the number of the merge's own pull request that the i-th line
\* of the snapshot embeds as a top-level bullet, <<>> when it embeds none.
OwnPR(log, i) ==
    Only({ IF StartsWith(line, <<" ", " ", "*", " ">>)
           THEN PullRequestNum(Slice(line, 5, Len(line) + 1)) ELSE <<>> :
           line \in {PreparedLine(log, i)} })

\* The type named by a formatted entry (__format_issue, line 212), "" for a
\* line that is no entry.
EntryTypeOf(line) ==
    IF Find(line, <<"*", " ", "**", "PR", "**", " ">>, 1) # 0 THEN "PR"
    ELSE IF Find(line, <<"*", " ", "**", "ISSUE", "**", " ">>, 1) # 0 THEN "ISSUE"
    ELSE ""

\* C11: when a top-level bullet line embeds the number of the merge's own pull
\* request and the issue map has no entry for that number, the assembly still
\* completes and the document has a formatted entry crediting that pull request.
C11_OwnPRCredited ==
    \A i \in 1..Len(git_log_output) :
        (/\ pc \in {"built", "raised"}
         /\ OwnPR(git_log_output, i) # <<>>
         /\ OwnPR(git_log_output, i) \notin DOMAIN issue_data)
            => /\ pc = "built"
               /\ \E k \in 1..Len(report) :
                     /\ EntryTypeOf(report[k]) = "PR"
                     /\ Find(report[k], <<"#">> \o OwnPR(git_log_output, i), 1) # 0

\* Lines 563-660: for every line of result, the index of the snapshot line whose
\* iteration appended it.
ResultGroups(log, data) ==
    LET after[k \in 0..Len(log)] ==
            IF k = 0 THEN <<>>
            ELSE Only({ prev \o [j \in 1..Len(e.lines) |-> Len(log) - k + 1] :
                        prev \in {after[k - 1]},
                        e \in { LineEntries(line, data, <<>>) :
                                line \in {PreparedLine(log, Len(log) - k + 1)} } })
    IN  after[Len(log)]

\* Lines 733-745: the body of the document, top down; for every line the
\* snapshot line it was appended for and the type of the entry it holds.
DocEntries ==
    Only({ [k \in 1..Len(result) |->
              [group |-> groups[Len(result) + 1 - k],
               type |-> EntryTypeOf(report[head + k])]] :
           groups \in {ResultGroups(git_log_output, issue_data)},
           head \in {Len(ReportHead(merges, issues, pulls, contributors, timestamp))} })

\* C12 as the specification states it: in the document, within the entries of
\* one commit line, every pull-request entry comes before every issue entry.
C12_PRBeforeIssue ==
    pc = "built" =>
        \A d \in {DocEntries} : \A a, b \in 1..Len(d) :
            (a < b /\ d[a].group = d[b].group)
                => ~(d[a].type = "ISSUE" /\ d[b].type = "PR")

\* C12 amended: in the document, within the entries of one commit line, every
\* issue entry comes before every pull-request entry (the entries are appended
\* pull requests first and the document reverses the appended lines).
C12_IssueBeforePR ==
    pc = "built" =>
        \A d \in {DocEntries} : \A a, b \in 1..Len(d) :
            (a < b /\ d[a].group = d[b].group)
                => ~(d[a].type = "PR" /\ d[b].type = "ISSUE")

\* A document with a group that holds an issue entry and a pull-request entry.
C12_Witness ==
    /\ pc = "built"
    /\ \E d \in {DocEntries} : \E a, b \in 1..Len(d) :
          /\ a < b
          /\ d[a].group = d[b].group
          /\ d[a].type = "ISSUE"
          /\ d[b].type = "PR"

\* C13: for the snapshot of a merge of pull request #100 above a commit that
\* fixes #50, with #100 a pull request whose body references #50 and #50 an
\* issue, the document reports exactly 1 merge, 1 issue reference and 1 PR
\* reference, and its link table defines both #100 and #50.
C13_ScenarioDocument ==
    (/\ pc = "built"
     /\ git_log_output \in ScenarioLogs
     /\ DOMAIN issue_data = {N100, N50}
     /\ issue_data[N100].type = "PR"
     /\ N50 \in issue_data[N100].related
     /\ issue_data[N50].type = "ISSUE")
        => /\ report[4] = <<"- Total Merges: **", "1", "**">>
           /\ report[5] = <<"- Total Issue References: **", "1", "**">>
           /\ report[6] = <<"- Total PR References: **", "1", "**">>
           /\ \A id \in {N100, N50} :
                 \E def \in LinkTable(report) :
                     IsIssueLink(def) /\ LinkTargetId(def) = <<"#">> \o id

\* The document of the scenario, built from a fresh resolution.
C13_Witness ==
    /\ pc = "built"
    /\ "query" \in effects
    /\ git_log_output \in ScenarioLogs
    /\ DOMAIN issue_data = {N100, N50}
    /\ issue_data[N100].type = "PR"
    /\ N50 \in issue_data[N100].related
    /\ issue_data[N50].type = "ISSUE"
    /\ \E def \in LinkTable(report) : LinkTargetId(def) = <<"#">> \o N100

\* C14: for an empty snapshot the assembly completes; the statistics header
\* gives the counts of merges, issue references, PR references and contributors
\* as zero, and the document has no link-target block: it ends with the line
\* of the generation time.
C14_EmptySnapshot ==
    git_log_output = <<>> =>
        /\ pc = "ready" => ENABLED BuildEntries
        /\ pc = "entries" => ENABLED BuildLinks
        /\ pc = "linked" => ENABLED BuildReport
        /\ error \notin {"KeyError or TypeError", "ValueError"}
        /\ pc = "built" =>
              /\ report[4] = <<"- Total Merges: **", "0", "**">>
              /\ report[5] = <<"- Total Issue References: **", "0", "**">>
              /\ report[6] = <<"- Total PR References: **", "0", "**">>
              /\ report[8] = <<"- Contributors: **", "0", "**", " ", "(", ")">>
              /\ LinkTable(report) = {}
              /\ Len(report) = 18
              /\ report[17][1] = "*Generated at: "
              /\ report[18] = <<>>

\* The document of an empty snapshot that git log printed.
C14_Witness ==
    /\ pc = "built"
    /\ "git_log" \in effects
    /\ git_log_output = <<>>
    /\ Len(report) = 18

-----------------------------------------------------------------------------
(* The cache over the runs *)

\* C15: a run that reads back the cache entry which the run before wrote from
\* its fresh resolution builds the very document that the run before built,
\* the order of the ids in every refs annotation included.
C15_RoundTripDocument ==
    (/\ pc = "built"
     /\ IsEntry(cache)
     /\ last_run.built
     /\ "write_cache" \in last_run.effects)
        => report = last_run.report

\* C16: two runs that load the same cache entry build the same document,
\* whatever the clock, the tracker and the repository are at each run.
C16_CachedDocumentFixed ==
    (/\ pc = "built"
     /\ IsEntry(cache)
     /\ last_run.built
     /\ last_run.hit)
        => report = last_run.report

\* C17: a run that does not ignore the cache and finds an entry with the four
\* fields takes its data from the entry; it does not run git log, does not
\* query the tracker, does not read the token and does not write the cache,
\* up to the end of the run.
C17_CacheHitOnly ==
    /\ [][(/\ pc = "begin"
           /\ ~ignore_cache
           /\ cache_file.state = "json"
           /\ IsEntry(cache_file.value))
              => (/\ pc' = "ready"
                  /\ cache' = cache_file.value
                  /\ cache_file' = cache_file)]_vars
    /\ [](IsEntry(cache) =>
            /\ effects = {"read_cache"}
            /\ query_count = NoFn
            /\ query_log = {}
            /\ cache_file = [state |-> "json", value |-> cache]
            /\ timestamp = cache["timestamp"]
            /\ git_log_output = cache["git_log_output"]
            /\ DOMAIN issue_data = DOMAIN cache["issue_data"]
            /\ \A k \in DOMAIN issue_data :
                  /\ issue_data[k].related = Range(cache["issue_data"][k].related)
                  /\ issue_data[k].title = cache["issue_data"][k].title
                  /\ issue_data[k].type = cache["issue_data"][k].type
            /\ DOMAIN issue_revmap = DOMAIN cache["issue_revmap"]
            /\ \A k \in DOMAIN issue_revmap :
                  issue_revmap[k] = Range(cache["issue_revmap"][k]))

\* A document built from a cache entry while the tracker would have answered
\* and the repository holds nothing any more.
C17_Witness ==
    /\ pc = "built"
    /\ IsEntry(cache)
    /\ effects = {"read_cache"}
    /\ cache["git_log_output"] # <<>>
    /\ DOMAIN issue_data # {}
    /\ \E t \in DOMAIN tracker : tracker[t] # HTTPError

C19_ReadBeforeWrite ==
    "write_cache" \in effects => "read_cache" \in effects

\* C19 amended: a run without --ignore-cache that has written the cache entry
\* has read it before and found no entry with the four fields; a run with
\* --ignore-cache that has written it has not read it.
C19_ReadBeforeWriteUnlessIgnored ==
    "write_cache" \in effects =>
        IF ignore_cache
        THEN "read_cache" \notin effects /\ cache = None
        ELSE /\ "read_cache" \in effects
             /\ cache # None
             /\ ~({"timestamp", "git_log_output", "issue_data", "issue_revmap"}
                    \subseteq DOMAIN cache)

\* A run with --ignore-cache wrote the entry without reading it; the run
\* before, without the option, had read the cache and then written the entry.
C19_Witness ==
    /\ ignore_cache
    /\ pc = "ready"
    /\ "write_cache" \in effects
    /\ "read_cache" \notin effects
    /\ {"read_cache", "write_cache"} \subseteq last_run.effects

\* C20: a cache read that meets a missing file, an unreadable path,
\* unparseable content, or content without the four fields of an entry does
\* not raise: the run that has only read the cache, and found no entry, goes
\* on to the full resolution.
C20_ReadFailureIsMiss ==
    (~ignore_cache /\ effects = {"read_cache"} /\ ~IsEntry(cache)) => pc = "start"

-----------------------------------------------------------------------------
(* write_cache and the cache directory *)

\* C21: write_cache reports a cache file that cannot be opened for writing as
\* a value, without raising: no run that has called write_cache ends with the
\* NameError of the handler of that OSError.
C21_WriteFailureReturned ==
    "write_cache" \in effects => error # "NameError"

\* C22: creating the cache directory is idempotent: the write_cache of a run
\* that finds the directory in place does not fail in __make_cachedir.
C22_MakeCachedirIdempotent ==
    [][(pc = "resolved" /\ cache_dir = "exists")
          => error' \notin {"AttributeError", "RuntimeError", "SystemExit"}]_vars

-----------------------------------------------------------------------------
(* The end of a run that fails *)

\* The step is a fatal failure: of the arguments (__init__), of git log
\* (__run), of the token, or of the creation of the cache directory.
FatalStep ==
    /\ pc' = "raised"
    /\ \/ pc \in {"new", "start", "gather"}
       \/ pc = "resolved" /\ cache_dir = "blocked"

\* C23: used as a library, every fatal failure raises an exception that is not
\* the end of the process.
C23_LibraryRaises ==
    [][(~main /\ FatalStep) => (error' # "SystemExit" /\ exit_status' = {})]_vars

\* C24: run as the command, only a failure of the arguments ends with the
\* status INVALID_ARGS, only a failure of the token with NO_TOKEN or
\* INVALID_TOKEN, and no failure of another kind ends with one of the six
\* statuses.
C24_StatusTellsFailure ==
    [][(main /\ pc' = "raised")
          => /\ pc = "new" => exit_status' = {INVALID_ARGS}
             /\ pc = "gather" => exit_status' \in {{NO_TOKEN}, {INVALID_TOKEN}}
             /\ pc \notin {"new", "gather"} =>
                   exit_status' \cap {UNSUPPORTED_PYTHON, INVALID_ARGS, NO_TOKEN,
                                      INVALID_TOKEN, NO_REPORT, KEYBOARD_INTERRUPT} = {}]_vars

-----------------------------------------------------------------------------
(* What the resolution follows *)

FoundIn(issue) ==
    UNION { Range(issue_re_findall(line)) : line \in Range(PRLines(issue)) }

\* The match is complete and is a reference: it holds a '#'.
IsReference(m) == m[3] = NotTruncated /\ Contains(m[1], "#")

\* The match is qualified with a repository.
IsQualified(m) == Head(m[1]) = "saltstack/"

\* issue_num is recorded in the reverse map as having discovered id.
DiscoveredBy(revmap, id, issue_num) ==
    id \in DOMAIN revmap /\ issue_num \in revmap[id]

\* C26: the pass of _gather over a fetched pull request adds a reference of
\* its title or body to the reverse map and to the next frontier exactly when
\* the reference is not qualified with a repository and is not in the issue
\* map yet; otherwise the pass adds it to neither.
C26_AddedUnlessQualifiedOrKnown ==
    [][\A issue_num \in todo \ todo' :
          \A issue \in {query_github(issue_num)} \ {None} :
             IssueType(issue) = "PR" =>
                \A m \in { x \in FoundIn(issue) : IsReference(x) } :
                   \A id \in {lstrip_hash(m[1])} :
                      IF ~IsQualified(m) /\ id \notin DOMAIN issue_data
                      THEN DiscoveredBy(issue_revmap', id, issue_num) /\ id \in related'
                      ELSE /\ DiscoveredBy(issue_revmap', id, issue_num)
                                => DiscoveredBy(issue_revmap, id, issue_num)
                           /\ id \in related' => id \in related]_vars

\* C26, amended: the pass adds every complete reference that holds a '#',
\* qualified or not, to the related identifiers of the pull request and to the
\* reverse map, be it in the issue map already or not, and adds it to the next
\* frontier exactly when it is not in the issue map yet; a match that is
\* truncated or holds no '#' adds nothing.
C26_RevmapAlwaysFrontierIfNew ==
    [][\A issue_num \in todo \ todo' :
          \A issue \in {query_github(issue_num)} \ {None} :
             IssueType(issue) = "PR" =>
                \A m \in FoundIn(issue) :
                   \A id \in {lstrip_hash(m[1])} :
                      IF IsReference(m)
                      THEN /\ DiscoveredBy(issue_revmap', id, issue_num)
                           /\ id \in issue_data'[issue_num].related
                           /\ id \notin DOMAIN issue_data => id \in related'
                           /\ (id \in DOMAIN issue_data /\ id \notin related)
                                 => id \notin related'
                      ELSE (\A x \in FoundIn(issue) : IsReference(x) => lstrip_hash(x[1]) # id)
                              => /\ id \notin issue_data'[issue_num].related
                                 /\ DiscoveredBy(issue_revmap', id, issue_num)
                                       => DiscoveredBy(issue_revmap, id, issue_num)
                                 /\ id \in related' => id \in related]_vars

\* The pass over pull request 10001, whose body references #1, already in the
\* issue map, and saltstack/r#1: both are in the reverse map, the qualified
\* one alone is in the next frontier.
C26_Witness ==
    /\ pc = "gather"
    /\ round = 1
    /\ NM \in DOMAIN issue_data
    /\ N1 \in DOMAIN issue_data
    /\ issue_data[NM].related = {N1, QR}
    /\ related = {QR}
    /\ DiscoveredBy(issue_revmap, N1, NM)
    /\ DiscoveredBy(issue_revmap, QR, NM)

-----------------------------------------------------------------------------
(* What the walk returns *)

\* The keys of issue_map that are reached from an id of from through at most
\* n related links, every id on the way a key of issue_map; none when n < 0.
Reach(issue_map, from, n) ==
    IF n < 0 THEN {}
    ELSE LET within[k \in 0..n] ==
                 IF k = 0 THEN from \cap DOMAIN issue_map
                 ELSE Only({ prev \cup (UNION { issue_map[i].related : i \in prev }
                                         \cap DOMAIN issue_map) :
                             prev \in {within[k - 1]} })
         IN  within[n]

\* What is walked, and what is within reach of the ids still to walk when
\* level rounds are over: at the start of the walk, the keys within 9 links
\* of the start ids.
WithinNine == walked \cup Reach(w_issues, w_to_walk, 9 - level)

\* C27: the walker returns, without duplicates, exactly the keys of the issue
\* map that are reached from a start id through at most 9 related links over
\* keys of the map: no step of the walk changes that set, and the returned
\* list holds each of its ids once and nothing else.
C27_WalkReturnsWithinNine ==
    /\ [][WithinNine' = WithinNine]_vars
    /\ [](pc = "walked" =>
             Range(w_refs) = WithinNine /\ Len(w_refs) = Cardinality(WithinNine))

\* The walk of a chain of more than ten items returned the first ten.
C27_Witness ==
    /\ pc = "walked"
    /\ Len(w_refs) = 10
    /\ Dec(10) \in Range(w_refs)
    /\ Dec(11) \in DOMAIN w_issues
    /\ Dec(11) \notin Range(w_refs)

-----------------------------------------------------------------------------
(* Truncated references in the build *)

\* C28: a match of a commit-log line that is followed by the ellipsis is no
\* seed of the walk: a top-level line of which every match is truncated has
\* no refs, and so no entries.
C28_TruncatedNoSeed ==
    pc = "entries" =>
        \A i \in 1..Len(git_log_output) :
           \A line \in {PreparedLine(git_log_output, i)} :
              ( /\ StartsWith(line, <<" ", " ", "*", " ">>)
                /\ issue_re_findall(line) # <<>>
                /\ \A m \in Range(issue_re_findall(line)) : m[3] # NotTruncated )
              => LineRefs(line, issue_data) = <<>>

-----------------------------------------------------------------------------
(* The counts of the statistics header *)

\* C29: the issue-reference count is the number of the entries of kind ISSUE
\* and the PR-reference count is the number of the entries of kind PR,
\* whatever the titles of the items say.
C29_CountsByKind ==
    pc = "entries" =>
        /\ issues = Cardinality({ k \in 1..Len(result) : EntryTypeOf(result[k]) = "ISSUE" })
        /\ pulls = Cardinality({ k \in 1..Len(result) : EntryTypeOf(result[k]) = "PR" })

-----------------------------------------------------------------------------
(* The body of the document *)

\* The lines of the document between its head and its tail.
Body ==
    SubSeq(report,
           Len(ReportHead(merges, issues, pulls, contributors, timestamp)) + 1,
           Len(report) - Len(ReportTail(links)))

\* C30: the body of the document holds every line of the built list once, in
\* the reverse of the order in which the list was built, be there a line that
\* starts with a bullet or not; the lines built after the last line that
\* starts with a bullet are stripped of their leading whitespace, every other
\* line is as it was built.
C30_BodyIsReversedResult ==
    pc = "built" =>
        /\ Len(Body) = Len(result)
        /\ \A k \in 1..Len(result) :
              Body[Len(result) + 1 - k] =
                 IF k > LastBullet(result) THEN lstrip(result[k]) ELSE result[k]

\* A document of a list in which no line starts with a bullet and a line is
\* indented.
C30_Witness ==
    /\ pc = "built"
    /\ LastBullet(result) = 0
    /\ \E k \in 1..Len(result) : result[k] # <<>> /\ result[k][1] = " "

====
